---- MODULE Spec2Model ----
(***************************************************************************)
(* Model of src/phonetic/suggestion.rs: the token segmenter split_string,  *)
(* the suffix composer add_suffix_to_suggestions and the orchestrator      *)
(* PhoneticSuggestion::suggest with its session cache.                     *)
(*                                                                         *)
(* A Rust String is modelled as the sequence of its Unicode code points.   *)
(* Byte offsets (str::len, str slicing) are computed from the UTF-8 width  *)
(* of every code point, so that a slice off a character boundary is a     *)
(* panic here as it is in the program.  A value that an operation may fail *)
(* to produce is a record [ok |-> BOOLEAN, ...]; ok = FALSE is a panic.    *)
(***************************************************************************)
EXTENDS Integers, Sequences, FiniteSets, TLC

VARIABLES
    cache,        \* PhoneticSuggestion.cache: romanized core -> candidate list
    term,         \* argument of the last call
    status,       \* "idle" | "returned" | "panicked"
    result,       \* the Vec<String> the last suggest call returned
    splitted,     \* split_string(term) as seen by the last call
    phonetic,     \* local `phonetic` (plain transliteration of the core)
    hit,          \* the core was in the cache when the call started
    composed,     \* add_suffix_to_suggestions' return value, before sort_by
    ranked,       \* suggestions_with_suffix after sort_by
    built,        \* local `suggestions` just before decoration (line 127)
    ncalls,       \* number of suggest calls so far
    repeat        \* "same" | "differ" when the last two calls had the same term
                  \* and both returned, by whether their lists agree; else "none"

vars == <<cache, term, status, result, splitted, phonetic, hit, composed,
          ranked, built, ncalls, repeat>>

----------------------------------------------------------------------------
(* Bounds *)

\* Longest input handed to split_string in SplitSpec.
MaxSplitLen == 4

\* Number of suggest calls in one session of Spec.
MaxCalls == 3

\* Longest candidate list of a hand-built cache entry in ComposeSpec.
MaxItems == 1

----------------------------------------------------------------------------
(* Strings, UTF-8 widths and byte slicing *)

\* All sequences over A of length at most n.
RECURSIVE StringsUpTo(_, _)
StringsUpTo(A, n) ==
    IF n = 0 THEN {<<>>}
    ELSE LET shorter == StringsUpTo(A, n - 1)
         IN  shorter \cup {Append(s, c) : s \in {x \in shorter : Len(x) = n - 1}, c \in A}

\* char::len_utf8
Utf8Len(c) ==
    IF c < 128 THEN 1 ELSE IF c < 2048 THEN 2 ELSE IF c < 65536 THEN 3 ELSE 4

\* Byte offset of the end of the k-th character (0 for k = 0).
RECURSIVE ByteOffset(_, _)
ByteOffset(s, k) ==
    IF k = 0 THEN 0 ELSE ByteOffset(s, k - 1) + Utf8Len(s[k])

\* str::len : length in bytes
ByteLen(s) == ByteOffset(s, Len(s))

\* str::is_char_boundary
IsCharBoundary(s, b) == \E k \in 0..Len(s) : ByteOffset(s, k) = b

\* Number of characters that end at or before byte offset b (b a boundary).
CharsBefore(s, b) == CHOOSE k \in 0..Len(s) : ByteOffset(s, k) = b

\* &s[from..to] : panics unless from <= to and both are character boundaries.
ByteSlice(s, from, to) ==
    IF from <= to /\ IsCharBoundary(s, from) /\ IsCharBoundary(s, to)
    THEN [ok |-> TRUE, val |-> SubSeq(s, CharsBefore(s, from) + 1, CharsBefore(s, to))]
    ELSE [ok |-> FALSE, val |-> <<>>]

Range(s) == {s[i] : i \in 1..Len(s)}

----------------------------------------------------------------------------
(* split_string *)

\* let meta = "-]~!@#%&*()_=+[{}'\";<>/?|.,";
meta == {45, 93, 126, 33, 64, 35, 37, 38, 42, 40, 41, 95, 61, 43, 91, 123, 125,
         39, 34, 59, 60, 62, 47, 63, 124, 46, 44}

\* for (index, c) in input.chars().enumerate() { if !meta.contains(c) {...; break} }
\* index counts characters from the front; Len(input) when the loop ends
\* without a break.
RECURSIVE ScanForward(_, _)
ScanForward(input, index) ==
    IF index >= Len(input) THEN Len(input)
    ELSE IF input[index + 1] \notin meta THEN index
    ELSE ScanForward(input, index + 1)

\* for (index, c) in input.chars().rev().enumerate() { ... break }
\* index counts characters from the back.
RECURSIVE ScanBackward(_, _)
ScanBackward(input, index) ==
    IF index >= Len(input) THEN Len(input)
    ELSE IF input[Len(input) - index] \notin meta THEN index
    ELSE ScanBackward(input, index + 1)

PanicSplit == [ok |-> FALSE, first_part |-> <<>>, middle_part |-> <<>>, last_part |-> <<>>]

\* split_string with last_index taken from the character count instead of
\* the byte length.
split_string_char_index(input) ==
    LET fwd == ScanForward(input, 0)
        encountered_alpha == fwd < Len(input)
        first_index == IF encountered_alpha THEN fwd ELSE 0
        bwd == ScanBackward(input, 0)
        last_index == IF bwd < Len(input) THEN Len(input) - bwd - 1 ELSE 0
        first_part == ByteSlice(input, 0, first_index)
        middle_part == ByteSlice(input, first_index, last_index + 1)
        last_part == ByteSlice(input, last_index + 1, ByteLen(input))
    IN  IF ~encountered_alpha
        THEN [ok |-> TRUE, first_part |-> input, middle_part |-> <<>>, last_part |-> <<>>]
        ELSE IF first_part.ok /\ middle_part.ok /\ last_part.ok
        THEN [ok |-> TRUE, first_part |-> first_part.val,
              middle_part |-> middle_part.val, last_part |-> last_part.val]
        ELSE PanicSplit

\* split_string with the backward scan stopping one character too early
\* (last_index = input.len() - index).
split_string_late_end(input) ==
    LET fwd == ScanForward(input, 0)
        encountered_alpha == fwd < Len(input)
        first_index == IF encountered_alpha THEN fwd ELSE 0
        bwd == ScanBackward(input, 0)
        last_index == IF bwd < Len(input) /\ bwd > 0 THEN ByteLen(input) - bwd
                      ELSE ByteLen(input) - 1
        first_part == ByteSlice(input, 0, first_index)
        middle_part == ByteSlice(input, first_index, last_index + 1)
        last_part == ByteSlice(input, last_index + 1, ByteLen(input))
    IN  IF ~encountered_alpha
        THEN [ok |-> TRUE, first_part |-> input, middle_part |-> <<>>, last_part |-> <<>>]
        ELSE IF first_part.ok /\ middle_part.ok /\ last_part.ok
        THEN [ok |-> TRUE, first_part |-> first_part.val,
              middle_part |-> middle_part.val, last_part |-> last_part.val]
        ELSE PanicSplit

split_string(input) ==
    LET fwd == ScanForward(input, 0)
        encountered_alpha == fwd < Len(input)
        first_index == IF encountered_alpha THEN fwd ELSE 0
        bwd == ScanBackward(input, 0)
        last_index == IF bwd < Len(input) THEN ByteLen(input) - bwd - 1 ELSE 0
        first_part == ByteSlice(input, 0, first_index)
        middle_part == ByteSlice(input, first_index, last_index + 1)
        last_part == ByteSlice(input, last_index + 1, ByteLen(input))
    IN  IF ~encountered_alpha
        THEN [ok |-> TRUE, first_part |-> input, middle_part |-> <<>>, last_part |-> <<>>]
        ELSE IF first_part.ok /\ middle_part.ok /\ last_part.ok
        THEN [ok |-> TRUE, first_part |-> first_part.val,
              middle_part |-> middle_part.val, last_part |-> last_part.val]
        ELSE PanicSplit

----------------------------------------------------------------------------
(* Collaborators: transliterator, dictionary, character classes, distance *)

\* Romanized letters the transliterator of this model knows:
\* a = 97, e = 101, m = 109, r = 114, s = 115, ':' = 58.
RomanConsonants == {109, 114, 115}

\* One step of the phonetic conversion: the native-script output for the
\* character c that follows prev (prev = 0 at the start of the string).
\*   a -> U+0986 at the start, nothing after another a ("aa" reads as "a"),
\*        U+09BE (aa-kar) after a consonant
\*   e -> U+09C7 (e-kar) after a consonant, U+098F otherwise
\*   m, r, s -> U+09AE, U+09B0, U+09B8     ':' -> U+0983
\*   every other character is passed through unchanged.
ConvertChar(prev, c) ==
    IF c = 97 THEN (IF prev \in RomanConsonants THEN <<2494>>
                    ELSE IF prev = 97 THEN <<>> ELSE <<2438>>)
    ELSE IF c = 101 THEN (IF prev \in RomanConsonants THEN <<2503>> ELSE <<2447>>)
    ELSE IF c = 109 THEN <<2478>>
    ELSE IF c = 114 THEN <<2480>>
    ELSE IF c = 115 THEN <<2488>>
    ELSE IF c = 58 THEN <<2435>>
    ELSE <<c>>

\* AvroPhonetic::convert
RECURSIVE convert(_)
convert(s) ==
    IF s = <<>> THEN <<>>
    ELSE LET n == Len(s)
             prev == IF n = 1 THEN 0 ELSE s[n - 1]
         IN  convert(SubSeq(s, 1, n - 1)) \o ConvertChar(prev, s[n])

\* Database::search_dictionary : the dictionary table of this model.
\*   "a"   -> U+0986 U+0983 | U+0986 | U+098F
\*   "as"  -> U+0986 U+0981 U+09B6 | U+0986 U+09B8 | U+0986 U+09B6 | U+098F U+09B8
\*   "ase" -> U+0986 U+09B8 U+09C7
DictionaryTable ==
    (<<97>> :> << <<2438, 2435>>, <<2438>>, <<2447>> >>) @@
    (<<97, 115>> :> << <<2438, 2433, 2486>>, <<2438, 2488>>, <<2438, 2486>>, <<2447, 2488>> >>) @@
    (<<97, 115, 101>> :> << <<2438, 2488, 2503>> >>)

search_dictionary(word) ==
    IF word \in DOMAIN DictionaryTable THEN DictionaryTable[word] ELSE <<>>

\* Database::get_corrected : the autocorrect table of this model.
\*   ":)" -> ":)"     "aam" -> "am"     "sr" -> "sar"
AutoCorrectTable ==
    (<<58, 41>> :> <<58, 41>>) @@
    (<<97, 97, 109>> :> <<97, 109>>) @@
    (<<115, 114>> :> <<115, 97, 114>>)

\* Option<String> as [some |-> BOOLEAN, val |-> String]
get_corrected(word) ==
    IF word \in DOMAIN AutoCorrectTable
    THEN [some |-> TRUE, val |-> AutoCorrectTable[word]]
    ELSE [some |-> FALSE, val |-> <<>>]

\* Database::find_suffix : the suffix table of this model.
\*   "e" -> U+09C7     "er" -> U+09C7 U+09B0     "r" -> U+09B0
SuffixTable ==
    (<<101>> :> <<2503>>) @@
    (<<101, 114>> :> <<2503, 2480>>) @@
    (<<114>> :> <<2480>>)

find_suffix(suffix_key) ==
    IF suffix_key \in DOMAIN SuffixTable
    THEN [some |-> TRUE, val |-> SuffixTable[suffix_key]]
    ELSE [some |-> FALSE, val |-> <<>>]

\* Utility::is_vowel : the independent vowels U+0985..U+0994
is_vowel(c) == c \in {2437, 2438, 2439, 2440, 2441, 2442, 2443, 2447, 2448, 2451, 2452}

\* Utility::is_kar : the dependent vowel signs U+09BE..U+09CC
is_kar(c) == c \in {2494, 2495, 2496, 2497, 2498, 2499, 2503, 2504, 2507, 2508}

Min3(x, y, z) == IF x <= y /\ x <= z THEN x ELSE IF y <= z THEN y ELSE z

\* One row of the Levenshtein table: the row for the prefix of `a` that ends
\* in ca, from the row of the prefix before it.
RECURSIVE LevRow(_, _, _, _)
LevRow(row, ca, b, acc) ==
    LET j == Len(acc)
    IN  IF j > Len(b) THEN acc
        ELSE LevRow(row, ca, b,
                 Append(acc, Min3(row[j + 1] + 1, acc[j] + 1,
                                  row[j] + (IF ca = b[j] THEN 0 ELSE 1))))

RECURSIVE LevRows(_, _, _)
LevRows(a, b, k) ==
    IF k = 0 THEN [j \in 1..(Len(b) + 1) |-> j - 1]
    ELSE LET row == LevRows(a, b, k - 1)
         IN  LevRow(row, a[k], b, <<row[1] + 1>>)

\* edit_distance::edit_distance : Levenshtein distance over characters
edit_distance(a, b) == LevRows(a, b, Len(a))[Len(b) + 1]

----------------------------------------------------------------------------
(* add_suffix_to_suggestions *)

\* str::trim_end_matches(c) : strips every trailing repetition of c
RECURSIVE trim_end_matches(_, _)
trim_end_matches(s, c) ==
    IF s # <<>> /\ s[Len(s)] = c THEN trim_end_matches(SubSeq(s, 1, Len(s) - 1), c)
    ELSE s

\* Lines 41-69: the word for one cached item and one suffix rendering.
\* chars().last().unwrap() panics on an empty item, chars().nth(0).unwrap()
\* on an empty suffix.
JoinWord(item, suffix) ==
    IF item = <<>> \/ suffix = <<>> THEN [ok |-> FALSE, val |-> <<>>]
    ELSE LET item_rmc == item[Len(item)]
             suffix_lmc == suffix[1]
         IN  [ok |-> TRUE,
              val |-> IF is_vowel(item_rmc) /\ is_kar(suffix_lmc)
                      THEN item \o <<2527>> \o suffix
                      ELSE IF item_rmc = 2510
                      THEN trim_end_matches(item, 2510) \o <<2468>> \o suffix
                      ELSE IF item_rmc = 2434
                      THEN trim_end_matches(item, 2434) \o <<2457>> \o suffix
                      ELSE item \o suffix]

\* for item in &self.cache[key] { ... list.push(word) } from the k-th item on
RECURSIVE JoinItems(_, _, _, _)
JoinItems(items, suffix, k, list) ==
    IF k > Len(items) THEN [ok |-> TRUE, val |-> list]
    ELSE LET word == JoinWord(items[k], suffix)
         IN  IF ~word.ok THEN [ok |-> FALSE, val |-> <<>>]
             ELSE JoinItems(items, suffix, k + 1, Append(list, word.val))

\* SplitLoop that stops at the first split point that yields words.
RECURSIVE SplitLoopFirstMatch(_, _, _, _)
SplitLoopFirstMatch(c, middle, i, list) ==
    IF i >= ByteLen(middle) \/ list # <<>> THEN [ok |-> TRUE, val |-> list]
    ELSE LET suffix_key == ByteSlice(middle, i, ByteLen(middle))
         IN  IF ~suffix_key.ok THEN [ok |-> FALSE, val |-> <<>>]
             ELSE LET suffix == find_suffix(suffix_key.val)
                      key == ByteSlice(middle, 0, ByteLen(middle) - ByteLen(suffix_key.val))
                  IN  IF ~suffix.some THEN SplitLoopFirstMatch(c, middle, i + 1, list)
                      ELSE IF ~key.ok THEN [ok |-> FALSE, val |-> <<>>]
                      ELSE IF key.val \notin DOMAIN c
                      THEN SplitLoopFirstMatch(c, middle, i + 1, list)
                      ELSE LET joined == JoinItems(c[key.val], suffix.val, 1, list)
                           IN  IF ~joined.ok THEN [ok |-> FALSE, val |-> <<>>]
                               ELSE SplitLoopFirstMatch(c, middle, i + 1, joined.val)

\* for i in 1..middle.len() { ... } from byte offset i on
RECURSIVE SplitLoop(_, _, _, _)
SplitLoop(c, middle, i, list) ==
    IF i >= ByteLen(middle) THEN [ok |-> TRUE, val |-> list]
    ELSE LET suffix_key == ByteSlice(middle, i, ByteLen(middle))
         IN  IF ~suffix_key.ok THEN [ok |-> FALSE, val |-> <<>>]
             ELSE LET suffix == find_suffix(suffix_key.val)
                      key == ByteSlice(middle, 0, ByteLen(middle) - ByteLen(suffix_key.val))
                  IN  IF ~suffix.some THEN SplitLoop(c, middle, i + 1, list)
                      ELSE IF ~key.ok THEN [ok |-> FALSE, val |-> <<>>]
                      ELSE IF key.val \notin DOMAIN c THEN SplitLoop(c, middle, i + 1, list)
                      ELSE LET joined == JoinItems(c[key.val], suffix.val, 1, list)
                           IN  IF ~joined.ok THEN [ok |-> FALSE, val |-> <<>>]
                               ELSE SplitLoop(c, middle, i + 1, joined.val)

\* add_suffix_to_suggestions without the fallback to the core's own entry.
add_suffix_no_fallback(c, sp) ==
    LET middle == sp.middle_part
    IN  IF ByteLen(middle) > 2 THEN SplitLoop(c, middle, 1, <<>>)
        ELSE [ok |-> TRUE, val |-> <<>>]

\* fn add_suffix_to_suggestions(&self, splitted) -> Vec<String>, reading the
\* cache c; [ok |-> FALSE] when it panics.
add_suffix_to_suggestions(c, sp) ==
    LET middle == sp.middle_part
        list == IF ByteLen(middle) > 2 THEN SplitLoop(c, middle, 1, <<>>)
                ELSE [ok |-> TRUE, val |-> <<>>]
    IN  IF ~list.ok THEN list
        ELSE IF list.val # <<>> THEN list
        ELSE [ok |-> TRUE, val |-> IF middle \in DOMAIN c THEN c[middle] ELSE <<>>]

----------------------------------------------------------------------------
(* suggest *)

\* PopulateCache that hands the correction to the caller on a cache hit too.
PopulateCacheAlwaysPrepend(c, core) ==
    LET dictionary == search_dictionary(core)
        corrected == get_corrected(core)
        word == convert(corrected.val)
    IN  IF ~corrected.some
        THEN [suggestions |-> <<>>,
              cache |-> IF core \in DOMAIN c THEN c ELSE (core :> dictionary) @@ c]
        ELSE [suggestions |-> <<word>>,
              cache |-> IF core \in DOMAIN c THEN c
                        ELSE (core :> Append(dictionary, word)) @@ c]

\* Lines 93-104: the dictionary search and the autocorrect of a core that is
\* not cached yet; the local `suggestions` and the cache afterwards.
PopulateCache(c, core) ==
    IF core \in DOMAIN c THEN [suggestions |-> <<>>, cache |-> c]
    ELSE LET dictionary == search_dictionary(core)
             corrected == get_corrected(core)
             word == convert(corrected.val)
         IN  IF corrected.some
             THEN [suggestions |-> <<word>>,
                   cache |-> (core :> Append(dictionary, word)) @@ c]
             ELSE [suggestions |-> <<>>, cache |-> (core :> dictionary) @@ c]

\* Stable insertion of x behind every element not farther from reference.
RECURSIVE InsertByDistance(_, _, _)
InsertByDistance(sorted, x, reference) ==
    IF sorted = <<>> THEN <<x>>
    ELSE IF edit_distance(reference, x) < edit_distance(reference, Head(sorted))
    THEN <<x>> \o sorted
    ELSE <<Head(sorted)>> \o InsertByDistance(Tail(sorted), x, reference)

RECURSIVE SortFrom(_, _, _, _)
SortFrom(list, reference, k, sorted) ==
    IF k > Len(list) THEN sorted
    ELSE SortFrom(list, reference, k + 1, InsertByDistance(sorted, list[k], reference))

\* Insertion with the comparison the wrong way round.
RECURSIVE InsertByDistanceDescending(_, _, _)
InsertByDistanceDescending(sorted, x, reference) ==
    IF sorted = <<>> THEN <<x>>
    ELSE IF edit_distance(reference, x) > edit_distance(reference, Head(sorted))
    THEN <<x>> \o sorted
    ELSE <<Head(sorted)>> \o InsertByDistanceDescending(Tail(sorted), x, reference)

RECURSIVE SortFromDescending(_, _, _, _)
SortFromDescending(list, reference, k, sorted) ==
    IF k > Len(list) THEN sorted
    ELSE SortFromDescending(list, reference, k + 1,
                            InsertByDistanceDescending(sorted, list[k], reference))

\* sort_by with Ordering::Less and Ordering::Greater swapped.
sort_by_descending(list, reference) == SortFromDescending(list, reference, 1, <<>>)

\* Lines 108-119: slice::sort_by (a stable sort) on the distance to `phonetic`
sort_by(list, reference) == SortFrom(list, reference, 1, <<>>)

\* Lines 124-126
PushPhonetic(suggestions, ph) ==
    IF ph \in Range(suggestions) THEN suggestions ELSE Append(suggestions, ph)

\* Lines 128-130
Decorate(suggestions, sp) ==
    [i \in 1..Len(suggestions) |-> sp.first_part \o suggestions[i] \o sp.last_part]

\* InsertEmoticon that looks the core up instead of the whole term.
InsertEmoticonOfCore(suggestions, t) ==
    LET emoticon == get_corrected(split_string(t).middle_part)
    IN  IF emoticon.some THEN <<emoticon.val>> \o suggestions ELSE suggestions

\* Lines 133-135
InsertEmoticon(suggestions, t) ==
    LET emoticon == get_corrected(t)
    IN  IF emoticon.some THEN <<emoticon.val>> \o suggestions ELSE suggestions

\* pub(crate) fn suggest(&mut self, term) -> Vec<String> on the cache c:
\* the returned list, the cache afterwards and the locals on the way.
suggest(c, t) ==
    LET sp == split_string(t)
        ph == convert(sp.middle_part)
        populated == PopulateCache(c, sp.middle_part)
        suffixed == add_suffix_to_suggestions(populated.cache, sp)
        sorted == sort_by(suffixed.val, ph)
        suggestions == PushPhonetic(populated.suggestions \o sorted, ph)
        final == InsertEmoticon(Decorate(suggestions, sp), t)
    IN  IF ~sp.ok
        THEN [ok |-> FALSE, cache |-> c, splitted |-> sp, phonetic |-> <<>>,
              hit |-> FALSE, composed |-> <<>>, ranked |-> <<>>, built |-> <<>>,
              result |-> <<>>]
        ELSE IF ~suffixed.ok
        THEN [ok |-> FALSE, cache |-> populated.cache, splitted |-> sp,
              phonetic |-> ph, hit |-> sp.middle_part \in DOMAIN c,
              composed |-> <<>>, ranked |-> <<>>, built |-> <<>>, result |-> <<>>]
        ELSE [ok |-> TRUE, cache |-> populated.cache, splitted |-> sp,
              phonetic |-> ph, hit |-> sp.middle_part \in DOMAIN c,
              composed |-> suffixed.val, ranked |-> sorted, built |-> suggestions,
              result |-> final]

----------------------------------------------------------------------------
(* The session: suggest calls on one PhoneticSuggestion *)

\* "", ")", "a", "as", "(as)", "ase", "aser", ":)", "aam", "sr", "(sr)", "sre",
\* U+0995 (three bytes), U+00E9 (two bytes)
Terms ==
    { <<>>, <<41>>, <<97>>, <<97, 115>>, <<40, 97, 115, 41>>, <<97, 115, 101>>,
      <<97, 115, 101, 114>>, <<58, 41>>, <<97, 97, 109>>, <<115, 114>>,
      <<40, 115, 114, 41>>, <<115, 114, 101>>, <<2453>>, <<233>> }

NoSplit == [ok |-> TRUE, first_part |-> <<>>, middle_part |-> <<>>, last_part |-> <<>>]

\* PhoneticSuggestion::new()
Init ==
    /\ cache = <<>>
    /\ term = <<>>
    /\ status = "idle"
    /\ result = <<>>
    /\ splitted = NoSplit
    /\ phonetic = <<>>
    /\ hit = FALSE
    /\ composed = <<>>
    /\ ranked = <<>>
    /\ built = <<>>
    /\ ncalls = 0
    /\ repeat = "none"

Suggest(t) ==
    /\ status # "panicked"
    /\ ncalls < MaxCalls
    /\ LET r == suggest(cache, t)
       IN  /\ cache' = r.cache
           /\ term' = t
           /\ status' = IF r.ok THEN "returned" ELSE "panicked"
           /\ result' = r.result
           /\ splitted' = r.splitted
           /\ phonetic' = r.phonetic
           /\ hit' = r.hit
           /\ composed' = r.composed
           /\ ranked' = r.ranked
           /\ built' = r.built
           /\ repeat' = IF status = "returned" /\ r.ok /\ t = term
                        THEN (IF r.result = result THEN "same" ELSE "differ")
                        ELSE "none"
    /\ ncalls' = ncalls + 1

Next == \E t \in Terms : Suggest(t)

Spec == Init /\ [][Next]_vars

----------------------------------------------------------------------------
(* split_string on its own, over every short string of a mixed alphabet *)

\* 'a', '%' and ')' (meta), U+00E9 (two bytes), U+0995 (three bytes),
\* U+1F600 (four bytes)
SplitAlphabet == {97, 37, 41, 233, 2453, 128512}

SplitInit ==
    /\ term \in StringsUpTo(SplitAlphabet, MaxSplitLen)
    /\ cache = <<>>
    /\ status = "idle"
    /\ result = <<>>
    /\ splitted = NoSplit
    /\ phonetic = <<>>
    /\ hit = FALSE
    /\ composed = <<>>
    /\ ranked = <<>>
    /\ built = <<>>
    /\ ncalls = 0
    /\ repeat = "none"

Split ==
    /\ status = "idle"
    /\ splitted' = split_string(term)
    /\ status' = IF splitted'.ok THEN "returned" ELSE "panicked"
    /\ UNCHANGED <<cache, term, result, phonetic, hit, composed, ranked, built,
                   ncalls, repeat>>

SplitNext == Split

SplitSpec == SplitInit /\ [][SplitNext]_vars

----------------------------------------------------------------------------
(* add_suffix_to_suggestions on its own, on caches built by hand as *)
(* tests::test_suffix builds them *)

\* "as", "ase"
StemKeys == { <<97, 115>>, <<97, 115, 101>> }

\* Candidates that end in an independent vowel (U+0986), in Khandatta (once
\* and twice), in Anushar, in a consonant; and the empty string.
Items ==
    { <<2438>>, <<2488, 2510>>, <<2488, 2510, 2510>>, <<2447, 2476, 2434>>,
      <<2438, 2488>>, <<>> }

HandBuiltCaches ==
    UNION { [K -> StringsUpTo(Items, MaxItems)] : K \in SUBSET StemKeys }

\* "a", "as", "ase", "aser", "asr", U+00E9, U+0995
ComposeCores ==
    { <<97>>, <<97, 115>>, <<97, 115, 101>>, <<97, 115, 101, 114>>,
      <<97, 115, 114>>, <<233>>, <<2453>> }

ComposeInit ==
    /\ cache \in HandBuiltCaches
    /\ term = <<>>
    /\ status = "idle"
    /\ result = <<>>
    /\ splitted = NoSplit
    /\ phonetic = <<>>
    /\ hit = FALSE
    /\ composed = <<>>
    /\ ranked = <<>>
    /\ built = <<>>
    /\ ncalls = 0
    /\ repeat = "none"

Compose(core) ==
    /\ status = "idle"
    /\ LET sp == [ok |-> TRUE, first_part |-> <<>>, middle_part |-> core,
                  last_part |-> <<>>]
           r == add_suffix_to_suggestions(cache, sp)
       IN  /\ term' = core
           /\ splitted' = sp
           /\ composed' = r.val
           /\ status' = IF r.ok THEN "returned" ELSE "panicked"
    /\ UNCHANGED <<cache, result, phonetic, hit, ranked, built, ncalls, repeat>>

ComposeNext == \E core \in ComposeCores : Compose(core)

ComposeSpec == ComposeInit /\ [][ComposeNext]_vars

----------------------------------------------------------------------------
(* Properties of split_string (checked under SplitSpec) *)

\* C1. Segmentation round-trip: for every input, split_string returns (it
\* does not panic on a slice) and first_part ++ middle_part ++ last_part is
\* the input, character for character.
C1_RoundTrip ==
    status # "idle" =>
        /\ status = "returned"
        /\ splitted.ok
        /\ splitted.first_part \o splitted.middle_part \o splitted.last_part = term

\* A multi-byte core between a non-empty prefix and a non-empty suffix.
C1_Witness ==
    /\ status = "returned"
    /\ splitted.first_part # <<>>
    /\ splitted.last_part # <<>>
    /\ \E i \in 1..Len(splitted.middle_part) : Utf8Len(splitted.middle_part[i]) > 1
    /\ splitted.first_part \o splitted.middle_part \o splitted.last_part = term

\* C2 as stated: prefix and suffix hold meta characters only and the core
\* holds no meta character at all; an input without a non-meta character is
\* all prefix.
C2_CoreHasNoMeta ==
    status = "returned" =>
        /\ Range(splitted.first_part) \subseteq meta
        /\ Range(splitted.last_part) \subseteq meta
        /\ Range(splitted.middle_part) \cap meta = {}
        /\ (Range(term) \subseteq meta =>
                splitted.first_part = term /\ splitted.middle_part = <<>>
                /\ splitted.last_part = <<>>)

\* C2 amended: prefix and suffix hold meta characters only; the core is
\* empty or begins and ends with a non-meta character (meta characters may
\* stand strictly inside it); an input without a non-meta character is all
\* prefix, and only then is the core empty.
C2_CoreEndsAreNotMeta ==
    status = "returned" =>
        LET core == splitted.middle_part
        IN  /\ Range(splitted.first_part) \subseteq meta
            /\ Range(splitted.last_part) \subseteq meta
            /\ core # <<>> => core[1] \notin meta /\ core[Len(core)] \notin meta
            /\ (Range(term) \subseteq meta <=> core = <<>>)
            /\ (Range(term) \subseteq meta =>
                    splitted.first_part = term /\ splitted.last_part = <<>>)

\* A core with a meta character inside, cut out of its decoration.
C2_Witness ==
    /\ status = "returned"
    /\ Range(splitted.middle_part) \cap meta # {}
    /\ splitted.last_part # <<>>

----------------------------------------------------------------------------
(* Properties of suggest (checked under Spec) *)

\* C3. suggest is total: no call panics, whatever the term and the cache.
C3_SuggestIsTotal == status # "panicked"

Occurrences(list, x) == Cardinality({i \in 1..Len(list) : list[i] = x})

\* The autocorrect-derived candidates of the last call: the transliterated
\* correction of the core when the call found the core uncached.
Prepended ==
    LET corrected == get_corrected(splitted.middle_part)
    IN  IF ~hit /\ corrected.some THEN <<convert(corrected.val)>> ELSE <<>>

\* C4. Plain-transliteration fallback: in every list suggest builds, plain
\* occurs exactly once (at most once, and always); it is the appended last
\* element exactly when the candidates before it (autocorrect conversion,
\* dictionary, suffix composition) do not hold it already.
C4_PlainExactlyOnce ==
    status = "returned" =>
        LET front == Prepended \o ranked
        IN  /\ Occurrences(built, phonetic) = 1
            /\ phonetic \notin Range(front) => built = Append(front, phonetic)
            /\ phonetic \in Range(front) => built = front

\* C5. Shape of the returned list: the candidates of the pre-decoration list,
\* in order, each wrapped as first_part ++ X ++ last_part; in front of them,
\* undecorated, the autocorrect value of the whole term exactly when
\* get_corrected(term) has one.
C5_Shape ==
    status = "returned" =>
        LET emoticon == get_corrected(term)
            k == IF emoticon.some THEN 1 ELSE 0
        IN  /\ Len(result) = Len(built) + k
            /\ k = 1 => result[1] = AutoCorrectTable[term]
            /\ \A i \in 1..Len(built) :
                  result[i + k] = splitted.first_part \o built[i] \o splitted.last_part

\* A decorated term with an autocorrect entry of its own whose core has none.
C5_Witness ==
    /\ status = "returned"
    /\ term \in DOMAIN AutoCorrectTable
    /\ splitted.middle_part \notin DOMAIN AutoCorrectTable
    /\ splitted.last_part # <<>>
    /\ Len(result) = Len(built) + 1

Distance(x) == edit_distance(phonetic, x)

\* The candidates of list at distance d from plain, in their order in list.
AtDistance(list, d) ==
    LET Test(x) == Distance(x) = d
    IN  SelectSeq(list, Test)

\* C6. Ranking: the ranked list is a permutation of the composer's output,
\* sorted by non-decreasing edit distance to plain; candidates at the same
\* distance keep the order the composer gave them (the sort is stable).
C6_Ranking ==
    status = "returned" =>
        /\ Len(ranked) = Len(composed)
        /\ \A i \in 1..(Len(ranked) - 1) : Distance(ranked[i]) <= Distance(ranked[i + 1])
        /\ \A d \in {Distance(composed[i]) : i \in 1..Len(composed)} :
              AtDistance(ranked, d) = AtDistance(composed, d)
        /\ \A i \in 1..Len(ranked) : ranked[i] \in Range(composed)

\* A call whose ranking moved candidates and had two distinct candidates tie.
C6_Witness ==
    /\ status = "returned"
    /\ ranked # composed
    /\ \E i, j \in 1..Len(ranked) :
          i < j /\ ranked[i] # ranked[j] /\ Distance(ranked[i]) = Distance(ranked[j])

\* What a suggest call on core (just returned, primed variables) did with the
\* autocorrect entry of core.
C7_Step ==
    (status' = "returned" /\ ncalls' = ncalls + 1) =>
        LET core == splitted'.middle_part
            corrected == get_corrected(core)
            word == convert(corrected.val)
            n == Len(ranked')
        IN  IF core \in DOMAIN cache
            THEN /\ hit'
                 /\ cache' = cache
                 /\ built' \in {ranked', Append(ranked', phonetic')}
            ELSE IF corrected.some
            THEN /\ ~hit'
                 /\ built' \in {<<word>> \o ranked', Append(<<word>> \o ranked', phonetic')}
                 /\ cache' = (core :> Append(search_dictionary(core), word)) @@ cache
            ELSE /\ ~hit'
                 /\ built' \in {ranked', Append(ranked', phonetic')}
                 /\ cache' = (core :> search_dictionary(core)) @@ cache

\* C7. Autocorrect prepending depends on the call history: the transliterated
\* correction of a core is put ahead of the ranked list, and stored in the
\* cache entry of the core, only by the call that inserts the core into the
\* cache; a call that finds the core cached prepends nothing and leaves the
\* cache as it is.
C7_PrependOnlyOnMiss == [][C7_Step]_vars

\* Two successive calls with the same term that returned different lists.
C7_Witness == repeat = "differ" /\ hit /\ splitted.middle_part \in DOMAIN AutoCorrectTable

----------------------------------------------------------------------------
(* Properties of add_suffix_to_suggestions *)

Stem(core, i) == SubSeq(core, 1, i)

SuffixKey(core, i) == SubSeq(core, i + 1, Len(core))

\* The split points of core that yield words from the cache c: the rest is
\* a registered suffix and the stem has a non-empty entry.
ProducingSplits(c, core) ==
    {i \in 1..(Len(core) - 1) :
        /\ SuffixKey(core, i) \in DOMAIN SuffixTable
        /\ Stem(core, i) \in DOMAIN c
        /\ c[Stem(core, i)] # <<>>}

\* Number of words the split points in S yield together.
RECURSIVE WordsOf(_, _, _)
WordsOf(c, core, S) ==
    IF S = {} THEN 0
    ELSE LET i == CHOOSE x \in S : TRUE
         IN  Len(c[Stem(core, i)]) + WordsOf(c, core, S \ {i})

CoreEntry(c, core) == IF core \in DOMAIN c THEN c[core] ELSE <<>>

\* The composer's result on the core of the last call, as C8 has it.
C8_State ==
    LET core == splitted.middle_part
        P == ProducingSplits(cache, core)
    IN  /\ ByteLen(core) <= 2 => composed = CoreEntry(cache, core)
        /\ (ByteLen(core) > 2 /\ P = {}) => composed = CoreEntry(cache, core)
        /\ (ByteLen(core) > 2 /\ P # {}) =>
              /\ Len(composed) = WordsOf(cache, core, P)
              /\ composed # <<>>
              /\ \A w \in Range(composed) : \E i \in P :
                    \E k \in 1..Len(cache[Stem(core, i)]) :
                       w = JoinWord(cache[Stem(core, i)][k],
                                    SuffixTable[SuffixKey(core, i)]).val

\* C8. Suffix composer guard and fallback: when the composer returns, a core
\* of length <= 2 (str::len) gets exactly its own cache entry (the empty list
\* when it has none), a longer core gets that entry when no split point
\* yielded a word and the joined words otherwise; the cache is not written.
C8_GuardAndFallback ==
    [][(status = "idle" /\ status' = "returned") => (cache' = cache /\ C8_State')]_vars

\* A core longer than 2 whose splits yield nothing and whose own entry is
\* returned, not empty.
C8_Witness ==
    /\ status = "returned"
    /\ ByteLen(splitted.middle_part) > 2
    /\ ProducingSplits(cache, splitted.middle_part) = {}
    /\ composed # <<>>
    /\ composed[1] # <<>>
    /\ composed = cache[splitted.middle_part]

\* composed, laid out block by block: the words of split point i stand
\* behind the words of the split points in Earlier(i), in cache order.
BlocksInOrder(c, core, Earlier(_)) ==
    LET P == ProducingSplits(c, core)
    IN  /\ Len(composed) = WordsOf(c, core, P)
        /\ \A i \in P : \A k \in 1..Len(c[Stem(core, i)]) :
              composed[WordsOf(c, core, Earlier(i)) + k]
                  = JoinWord(c[Stem(core, i)][k], SuffixTable[SuffixKey(core, i)]).val

\* C9 as stated: every matching split contributes one word per cached
\* candidate of its stem, all are kept, shortest suffix first.
C9_ShortestSuffixFirst ==
    (status = "returned" /\ ByteLen(splitted.middle_part) > 2
        /\ ProducingSplits(cache, splitted.middle_part) # {}) =>
        LET core == splitted.middle_part
            Earlier(i) == {j \in ProducingSplits(cache, core) : j > i}
        IN  BlocksInOrder(cache, core, Earlier)

C9_State ==
    (status = "returned" /\ ByteLen(splitted.middle_part) > 2
        /\ ProducingSplits(cache, splitted.middle_part) # {}) =>
        LET core == splitted.middle_part
            Earlier(i) == {j \in ProducingSplits(cache, core) : j < i}
        IN  BlocksInOrder(cache, core, Earlier)

\* C9 amended: every matching split contributes one word per cached candidate
\* of its stem, all are kept, in loop order (i ascending: the longest suffix,
\* that is the shortest stem, first) and in cache order within a split; a call
\* adds no cache entry but that of its own core, so a stem that was not the
\* core of an earlier call contributes nothing.
C9_AllSplitsLongestSuffixFirst ==
    [][(status' = "returned" /\ ncalls' = ncalls + 1) =>
          /\ DOMAIN cache' = DOMAIN cache \cup {splitted'.middle_part}
          /\ \A key \in DOMAIN cache : cache'[key] = cache[key]
          /\ C9_State']_vars

\* Two split points of one core both yield words.
C9_Witness ==
    /\ status = "returned"
    /\ Cardinality(ProducingSplits(cache, splitted.middle_part)) >= 2
    /\ Len(composed) = WordsOf(cache, splitted.middle_part,
                               ProducingSplits(cache, splitted.middle_part))

\* The joined word as C10 has it: only the one trailing character of item is
\* replaced.
ClaimedJoin(item, suffix) ==
    LET r == item[Len(item)]
        l == suffix[1]
        front == SubSeq(item, 1, Len(item) - 1)
    IN  IF is_vowel(r) /\ is_kar(l) THEN item \o <<2527>> \o suffix
        ELSE IF r = 2510 THEN front \o <<2468>> \o suffix
        ELSE IF r = 2434 THEN front \o <<2457>> \o suffix
        ELSE item \o suffix

\* C10. Joining rule: every word the composer returns for a cached stem
\* candidate and a suffix rendering is the one ClaimedJoin gives.
C10_JoiningRule ==
    (status = "returned" /\ ByteLen(splitted.middle_part) > 2) =>
        LET core == splitted.middle_part
            P == ProducingSplits(cache, core)
        IN  \A i \in P : \A k \in 1..Len(cache[Stem(core, i)]) :
              composed[WordsOf(cache, core, {j \in P : j < i}) + k]
                  = ClaimedJoin(cache[Stem(core, i)][k], SuffixTable[SuffixKey(core, i)])

====
